---- MODULE Spec2Model ----
(***************************************************************************)
(* Model of the generated Playwright scenarios of Acmemari/pecuaria         *)
(* (src/testsprite_tests/TC001, TC003, TC007, TC008).  Every file is one    *)
(* coroutine run_test(): a try block that acquires driver, browser,         *)
(* context and page, runs a fixed straight-line script of goto / pause /    *)
(* fill / click steps and one terminal assertion, and a finally block that  *)
(* closes context, browser and driver.  The file ends with                  *)
(* asyncio.run(run_test()), so the process exit code is Python's: 0 when    *)
(* run_test returns, 1 when any exception leaves it.                        *)
(*                                                                         *)
(* The browser and the application under test are the environment: every   *)
(* awaited call either completes or raises, chosen nondeterministically.    *)
(* Times are in milliseconds, as in the source.                             *)
(***************************************************************************)
EXTENDS Integers, Sequences, FiniteSets, TLC

VARIABLES
    scenario,      \* which script file is run
    targetAt,      \* environment: when the assertion's target becomes visible (NeverT: never)
    pastDeadline,  \* environment: more time has passed in the try block than a run is given
    pc,            \* position of run_test
    ip,            \* index of the next step of the action script
    pw,            \* Python local pw: "None" or "Obj"
    browser,       \* Python local browser
    context,       \* Python local context
    page,          \* Python local page
    frame,         \* Python local frame: "None" or the page it was anchored on
    elem,          \* Python local elem: the selector of the last locator built
    alloc,         \* per resource: "unallocated", "open", "released", "release_failed"
    releaseCalls,  \* per resource: how many times its release was invoked
    ctxTimeout,    \* the default timeout set on the context (NoTimeout: none was set)
    exc,           \* the exception in flight ("none" when there is none)
    msg,           \* the message the exception in flight carries
    exitCode,      \* <<>> while the process runs, <<n>> once it has exited
    frames,        \* len(page.frames) seen by the for loop
    fi,            \* index of the for loop over page.frames
    hung,          \* an awaited call with no timeout never returned
    count,         \* history: calls issued, per kind
    ran,           \* history: script indexes executed
    rerun,         \* history: some script index was executed twice
    elemUses,      \* history: fills and clicks issued on the locator elem names
    matched,       \* history: what matched at the last fill or click: "own" locator,
                   \* only "alt" (another locator of the same control), "none"; "n/a" before
    failedAt,      \* history: pc of the first raise in the try block
    failedKind,    \* history: kind of the script step that raised first
    closeRaised,   \* history: resources whose release raised
    runs,          \* two runs side by side: per run, its position and its locals
    heap           \* two runs side by side: every object a run was handed, in creation order

vars == <<scenario, targetAt, pastDeadline, pc, ip, pw, browser, context, page, frame, elem,
          alloc, releaseCalls, ctxTimeout, exc, msg, exitCode, frames, fi, hung, count,
          ran, rerun, elemUses, matched,
          failedAt, failedKind, closeRaised, runs, heap>>

(***************************************************************************)
(* Bounds of the model                                                     *)
(***************************************************************************)
\* page.frames holds the main frame and up to MaxFrames - 1 iframes
MaxFrames == 3
\* the target's appearance time is explored up to MaxSkew ms around each timeout
MaxSkew == 1

(***************************************************************************)
(* Constants of the source                                                 *)
(***************************************************************************)
DefaultTimeout == 5000
GotoTimeout == 10000
LoadStateTimeout == 3000
PauseDuration == 3000
ClickTimeout == 5000
ExpectTimeout == 3000
WaitForTimeout == 5000
SleepDuration == 5000
NoTimeout == 0 - 1

Scenarios == {"TC001", "TC003", "TC007", "TC008"}
Resources == {"pw", "browser", "context"}

\* TC003 holds two lines of three backticks inside run_test: the file does not compile
HasSyntaxError(s) == s = "TC003"

\* `expect` is used by TC001, TC003 and TC008; no file imports or defines it
ExpectDefined(s) == FALSE

\* TC007 asserts with Locator.wait_for + assert is_visible(); the others with expect(...)
UsesExpect(s) == s \in {"TC001", "TC003", "TC008"}

\* the timeout the terminal assertion passes
AssertTimeout(s) == IF UsesExpect(s) THEN ExpectTimeout ELSE WaitForTimeout

(***************************************************************************)
(* Selectors and URLs, shortened: A is the html/body/div/... family, B the  *)
(* html/body/div[1]/... family.                                            *)
(***************************************************************************)
EmailA == "html/body/div/div/div/div[2]/form/div[1]/div/input"
PassA == "html/body/div/div/div/div[2]/form/div[2]/div/input"
SubmitA == "html/body/div/div/div/div[2]/form/button"
EmailB == "html/body/div[1]/div/div/div[2]/form/div[1]/div/input"
PassB == "html/body/div[1]/div/div/div[2]/form/div[2]/div/input"
SubmitB == "html/body/div[1]/div/div/div[2]/form/button"
EntrarB == "html/body/div[1]/div/div/div[2]/div[2]/button[1]"
CadastreSe == "html/body/div/div/div/div[3]/p/button"
Spinner == "html/body/div/div/svg"

Root == "http://localhost:3000"
RootSlash == "http://localhost:3000/"
LoginUrl == "http://localhost:3000/login"
AtividadesUrl == "http://localhost:3000/iniciativas/atividades"

\* the controls the scripts' comments call the login submit ('Entrar')
IsLoginSubmit(x) == x \in {SubmitA, SubmitB, EntrarB}
IsLoginField(x) == x \in {EmailA, PassA, EmailB, PassB}

(***************************************************************************)
(* Script steps.  One interactive block of the source,                     *)
(*     frame = context.pages[-1]                                           *)
(*     elem = frame.locator('xpath=...').nth(0)                            *)
(*     await page.wait_for_timeout(3000); await elem.fill(...)             *)
(* is three steps: locate (the two synchronous assignments), pause, and    *)
(* the fill or click.                                                      *)
(***************************************************************************)
Goto(u) == [kind |-> "goto", arg |-> u]
Locate(x) == [kind |-> "locate", arg |-> x]
Pause == [kind |-> "pause", arg |-> ""]
Fill(t) == [kind |-> "fill", arg |-> t]
Click == [kind |-> "click", arg |-> ""]

FillAt(x, t) == <<Locate(x), Pause, Fill(t)>>
ClickAt(x) == <<Locate(x), Pause, Click>>
Login(e, p, s) == FillAt(e, "example@gmail.com") \o FillAt(p, "password123") \o ClickAt(s)
LoginA == Login(EmailA, PassA, SubmitA)

ScriptTC001 ==
    <<Goto(Root), Goto(LoginUrl)>> \o LoginA \o ClickAt(CadastreSe)
    \o <<Goto(LoginUrl), Goto(LoginUrl), Goto(Root), Goto(AtividadesUrl)>>

ScriptTC007 ==
    <<Goto(Root), Goto(LoginUrl), Goto(LoginUrl)>> \o ClickAt(Spinner)
    \o LoginA \o LoginA \o LoginA

ScriptTC008 ==
    <<Goto(Root), Goto(LoginUrl)>> \o LoginA \o Login(EmailB, PassB, EntrarB)
    \o LoginA \o ClickAt(EntrarB)

ScriptTC003 ==
    <<Goto(Root)>> \o LoginA
    \o FillAt(EmailB, "example@gmail.com") \o FillAt(PassB, "password123")
    \o LoginA \o ClickAt(EntrarB) \o LoginA
    \o <<Goto(RootSlash)>> \o LoginA
    \o Login(EmailB, PassB, EntrarB) \o Login(EmailB, PassB, SubmitB) \o LoginA
    \o FillAt(EmailB, "example@gmail.com") \o FillAt(PassB, "password123")
    \o LoginA \o Login(EmailB, PassB, EntrarB) \o Login(EmailB, PassB, SubmitB)
    \o LoginA \o Login(EmailB, PassB, EntrarB)
    \o <<Goto(AtividadesUrl)>> \o LoginA \o Login(EmailB, PassB, EntrarB)
    \o ClickAt(SubmitB)
    \o <<Goto(AtividadesUrl)>> \o LoginA

Script(s) ==
    CASE s = "TC001" -> ScriptTC001
      [] s = "TC003" -> ScriptTC003
      [] s = "TC007" -> ScriptTC007
      [] s = "TC008" -> ScriptTC008

\* the login submit clicks a script lists (a click is the third step of ClickAt)
NumSubmitClicks(s) ==
    Cardinality({i \in 3..Len(Script(s)) :
        /\ Script(s)[i].kind = "click"
        /\ Script(s)[i - 2].kind = "locate"
        /\ IsLoginSubmit(Script(s)[i - 2].arg)})

\* the page.goto statements a script lists after the first navigation of line 32
NumGotos(s) ==
    Cardinality({i \in 1..Len(Script(s)) : Script(s)[i].kind = "goto"})

(***************************************************************************)
(* Timeouts: what the source passes to each awaited call.  fill takes no   *)
(* argument and falls under context.set_default_timeout(5000).             *)
(***************************************************************************)
ExplicitTimeout(kind) ==
    CASE kind = "goto" -> GotoTimeout
      [] kind = "wait_load" -> LoadStateTimeout
      [] kind = "pause" -> PauseDuration
      [] kind = "fill" -> DefaultTimeout
      [] kind = "click" -> ClickTimeout
      [] kind = "expect" -> ExpectTimeout
      [] kind = "wait_for" -> WaitForTimeout
      [] kind = "sleep" -> SleepDuration
      [] OTHER -> NoTimeout

\* Chromium's launch has the library's own default timeout; the calls below
\* take no timeout at all, so nothing bounds them when the browser stops answering
CanHang(kind) ==
    /\ ExplicitTimeout(kind) = NoTimeout
    /\ kind \in {"start", "new_context", "new_page", "context_close",
                 "browser_close", "stop"}

\* the exceptions an awaited Playwright call raises
CallErrors(kind) ==
    IF ExplicitTimeout(kind) = NoTimeout /\ kind # "launch"
    THEN {"Error"} ELSE {"Error", "TimeoutError"}

\* playwright.async_api.TimeoutError is a subclass of playwright.async_api.Error
IsPlaywrightError(e) == e \in {"Error", "TimeoutError"}

TargetTimes ==
    {0} \cup {t + d : t \in {ExpectTimeout, WaitForTimeout}, d \in (0 - MaxSkew)..MaxSkew}
NeverT == NoTimeout

\* the target is visible at some time within the first `timeout` ms
VisibleWithin(timeout) == targetAt # NeverT /\ targetAt <= timeout

Bump(k) == [count EXCEPT ![k] = @ + 1]
CountKeys == {"start", "launch", "new_context", "new_page", "goto", "pause", "fill",
              "click", "assert", "swallowed", "submit", "login_fill"}

(***************************************************************************)
(* Initial state: the process has been started on one of the four files.   *)
(***************************************************************************)
\* the two scripts whose run_test are started side by side
ConcRuns == {"TC001", "TC008"}

\* the Python value None, where a local names no object
NoHandle == 0

\* pw = None; browser = None; context = None (page is unbound until line 29)
FreshLocals ==
    [pc |-> "start", pw |-> NoHandle, browser |-> NoHandle, context |-> NoHandle,
     page |-> NoHandle]

Init ==
    /\ scenario \in Scenarios
    /\ targetAt \in TargetTimes \cup {NeverT}
    /\ pastDeadline = FALSE
    /\ pc = "compile"
    /\ ip = 1
    /\ pw = "None"
    /\ browser = "None"
    /\ context = "None"
    /\ page = "None"
    /\ frame = "None"
    /\ elem = "None"
    /\ alloc = [r \in Resources |-> "unallocated"]
    /\ releaseCalls = [r \in Resources |-> 0]
    /\ ctxTimeout = NoTimeout
    /\ exc = "none"
    /\ msg = "none"
    /\ exitCode = <<>>
    /\ frames = 0
    /\ fi = 0
    /\ hung = FALSE
    /\ count = [k \in CountKeys |-> 0]
    /\ ran = {}
    /\ rerun = FALSE
    /\ matched = "n/a"
    /\ elemUses = 0
    /\ failedAt = "none"
    /\ failedKind = "none"
    /\ closeRaised = {}
    /\ runs = [r \in ConcRuns |-> FreshLocals]
    /\ heap = <<>>

conc == <<runs, heap>>
env == <<scenario, targetAt, pastDeadline, conc>>
locals == <<pw, browser, context, page, frame, elem>>
session == <<alloc, releaseCalls, closeRaised, ctxTimeout>>
loop == <<frames, fi>>
scriptHist == <<ran, rerun, matched, elemUses>>
failure == <<exc, msg, failedAt, failedKind>>

\* what an awaited call of this kind can do: complete, raise, or never return
Outcomes(kind) ==
    {"ok"} \cup CallErrors(kind) \cup (IF CanHang(kind) THEN {"hang"} ELSE {})

\* the message a raised exception carries
MessageOf(e) == IF IsPlaywrightError(e) THEN "playwright" ELSE "python"

\* an awaited call with no timeout never returns: run_test stays suspended in it
Hang ==
    /\ hung' = TRUE
    /\ UNCHANGED <<env, pc, ip, locals, session, failure, exitCode, loop, count,
                   scriptHist>>

\* an exception raised inside the try block: control transfers to the finally block
RaiseInTry(e, m, kind) ==
    /\ exc' = e
    /\ msg' = m
    /\ failedAt' = IF failedAt = "none" THEN pc ELSE failedAt
    /\ failedKind' = IF failedKind = "none" THEN kind ELSE failedKind
    /\ pc' = "fin_context"

(***************************************************************************)
(* The interpreter compiles the whole file before running any of it.       *)
(***************************************************************************)
Compile ==
    /\ pc = "compile"
    /\ IF HasSyntaxError(scenario)
       THEN /\ exc' = "SyntaxError"
            /\ msg' = "python"
            /\ pc' = "asyncio_run"
       ELSE /\ pc' = "start"
            /\ UNCHANGED <<exc, msg>>
    /\ UNCHANGED <<env, ip, locals, session, failedAt, failedKind, exitCode, loop,
                   hung, count, scriptHist>>

(***************************************************************************)
(* Acquisition, lines 9-29                                                 *)
(***************************************************************************)
\* pw = await async_api.async_playwright().start()
Start ==
    /\ pc = "start"
    /\ ~hung
    /\ \E o \in Outcomes("start") :
        IF o = "hang" THEN Hang
        ELSE /\ count' = Bump("start")
             /\ IF o = "ok"
                THEN /\ pw' = "Obj"
                     /\ alloc' = [alloc EXCEPT !["pw"] = "open"]
                     /\ pc' = "launch"
                     /\ UNCHANGED failure
                ELSE /\ RaiseInTry(o, MessageOf(o), "start")
                     /\ UNCHANGED <<pw, alloc>>
             /\ UNCHANGED <<env, ip, browser, context, page, frame, elem,
                            releaseCalls, closeRaised, ctxTimeout, exitCode, loop,
                            hung,
                            scriptHist>>

\* browser = await pw.chromium.launch(headless=True, args=[...])
Launch ==
    /\ pc = "launch"
    /\ ~hung
    /\ \E o \in Outcomes("launch") :
        /\ count' = Bump("launch")
        /\ IF o = "ok"
           THEN /\ browser' = "Obj"
                /\ alloc' = [alloc EXCEPT !["browser"] = "open"]
                /\ pc' = "new_context"
                /\ UNCHANGED failure
           ELSE /\ RaiseInTry(o, MessageOf(o), "launch")
                /\ UNCHANGED <<browser, alloc>>
        /\ UNCHANGED <<env, ip, pw, context, page, frame, elem, releaseCalls,
                       closeRaised, ctxTimeout, exitCode, loop, hung, scriptHist>>

\* context = await browser.new_context()
NewContext ==
    /\ pc = "new_context"
    /\ ~hung
    /\ \E o \in Outcomes("new_context") :
        IF o = "hang" THEN Hang
        ELSE /\ count' = Bump("new_context")
             /\ IF o = "ok"
                THEN /\ context' = "Obj"
                     /\ alloc' = [alloc EXCEPT !["context"] = "open"]
                     /\ pc' = "set_default_timeout"
                     /\ UNCHANGED failure
                ELSE /\ RaiseInTry(o, MessageOf(o), "new_context")
                     /\ UNCHANGED <<context, alloc>>
             /\ UNCHANGED <<env, ip, pw, browser, page, frame, elem, releaseCalls,
                            closeRaised, ctxTimeout, exitCode, loop, hung, scriptHist>>

\* variant: the page is opened without a default timeout set on the context
SetDefaultTimeout_Omitted ==
    /\ pc = "set_default_timeout"
    /\ pc' = "new_page"
    /\ UNCHANGED <<env, ip, locals, session, failure, exitCode, loop, hung, count,
                   scriptHist>>

\* context.set_default_timeout(5000): synchronous, nothing is awaited
SetDefaultTimeout ==
    /\ pc = "set_default_timeout"
    /\ ctxTimeout' = DefaultTimeout
    /\ pc' = "new_page"
    /\ UNCHANGED <<env, ip, locals, alloc, releaseCalls, closeRaised, failure,
                   exitCode, loop, hung, count, scriptHist>>

\* page = await context.new_page()
NewPage ==
    /\ pc = "new_page"
    /\ ~hung
    /\ \E o \in Outcomes("new_page") :
        IF o = "hang" THEN Hang
        ELSE /\ count' = Bump("new_page")
             /\ IF o = "ok"
                THEN /\ page' = "Obj"
                     /\ pc' = "goto0"
                     /\ UNCHANGED failure
                ELSE /\ RaiseInTry(o, MessageOf(o), "new_page")
                     /\ UNCHANGED page
             /\ UNCHANGED <<env, ip, pw, browser, context, frame, elem, session,
                            exitCode, loop, hung, scriptHist>>

(***************************************************************************)
(* First navigation and the best-effort load-state waits, lines 31-45      *)
(***************************************************************************)
\* await page.goto("http://localhost:3000", wait_until="commit", timeout=10000)
Goto0 ==
    /\ pc = "goto0"
    /\ \E o \in Outcomes("goto") :
        /\ count' = Bump("goto")
        /\ IF o = "ok"
           THEN /\ pc' = "wait_main"
                /\ UNCHANGED failure
           ELSE RaiseInTry(o, MessageOf(o), "goto")
    /\ UNCHANGED <<env, ip, locals, session, exitCode, loop, hung, scriptHist>>

\* variant: a handler written `except async_api.TimeoutError: pass`
LoadStateHandler_OnlyTimeout(o) ==
    IF o = "ok" THEN "continue"
    ELSE IF o = "TimeoutError" THEN "swallow" ELSE "raise"

\* try: await x.wait_for_load_state("domcontentloaded", timeout=3000)
\* except async_api.Error: pass
LoadStateHandler(o) ==
    IF o = "ok" THEN "continue"
    ELSE IF IsPlaywrightError(o) THEN "swallow" ELSE "raise"

\* the wait on the main page; page.frames is read when the for loop starts
WaitMain ==
    /\ pc = "wait_main"
    /\ \E o \in Outcomes("wait_load"), n \in 1..MaxFrames :
        LET h == LoadStateHandler(o) IN
        IF h = "raise"
        THEN /\ RaiseInTry(o, MessageOf(o), "wait_load")
             /\ UNCHANGED <<loop, count>>
        ELSE /\ pc' = "wait_frames"
             /\ frames' = n
             /\ fi' = 1
             /\ count' = IF h = "swallow" THEN Bump("swallowed") ELSE count
             /\ UNCHANGED failure
    /\ UNCHANGED <<env, ip, locals, session, exitCode, hung, scriptHist>>

\* one iteration of: for frame in page.frames: try: await frame.wait_for_load_state(...)
WaitFrame ==
    /\ pc = "wait_frames"
    /\ fi <= frames
    /\ \E o \in Outcomes("wait_load") :
        LET h == LoadStateHandler(o) IN
        IF h = "raise"
        THEN /\ RaiseInTry(o, MessageOf(o), "wait_load")
             /\ UNCHANGED <<fi, frame, count>>
        ELSE /\ fi' = fi + 1
             /\ frame' = "frame"
             /\ pc' = IF fi + 1 > frames THEN "script" ELSE "wait_frames"
             /\ count' = IF h = "swallow" THEN Bump("swallowed") ELSE count
             /\ UNCHANGED failure
    /\ UNCHANGED <<env, ip, pw, browser, context, page, elem, session, exitCode,
                   frames, hung, scriptHist>>

(***************************************************************************)
(* The action script, lines 47 to the assertion: straight-line code, one   *)
(* step after the other, no loop and no handler around any step.           *)
(***************************************************************************)
Cur == Script(scenario)[ip]

\* variant: a retry loop that runs a login block again after its first submit click
NextIp_RetryLogin(i) ==
    IF i >= 9 /\ Script(scenario)[i].kind = "click" /\ IsLoginSubmit(elem)
       /\ count["submit"] < 2
    THEN i - 8 ELSE i + 1

\* variant: every navigation is issued a second time before the script goes on
NextIp_Renavigate(i) ==
    IF Script(scenario)[i].kind = "goto" /\ i \notin ran THEN i ELSE i + 1

\* the statement after statement i
NextIp(i) == i + 1

\* variant: a deadline check between the steps that leaves the try block
Advance_Deadline ==
    /\ ip' = NextIp(ip)
    /\ pc' = IF pastDeadline THEN "fin_context"
             ELSE IF NextIp(ip) > Len(Script(scenario)) THEN "assert" ELSE "script"

Advance ==
    /\ ip' = NextIp(ip)
    /\ pc' = IF NextIp(ip) > Len(Script(scenario)) THEN "assert" ELSE "script"

Ran ==
    /\ ran' = ran \cup {ip}
    /\ rerun' = (rerun \/ ip \in ran)
    /\ elemUses' = IF Cur.kind = "locate" THEN 0 ELSE elemUses
    /\ UNCHANGED matched

\* a fill or click was executed with the locators in m matching the page
RanResolved(m) ==
    /\ ran' = ran \cup {ip}
    /\ rerun' = (rerun \/ ip \in ran)
    /\ matched' = IF elem \in m THEN "own" ELSE IF m # {} THEN "alt" ELSE "none"
    /\ elemUses' = elemUses + 1

\* variant: the failure is noted and the script goes on at the same step
ActionFailed_Recover(o, kind) ==
    /\ failedAt' = IF failedAt = "none" THEN pc ELSE failedAt
    /\ failedKind' = IF failedKind = "none" THEN kind ELSE failedKind
    /\ pc' = "script"
    /\ UNCHANGED <<ip, exc, msg>>

\* variant: the failure of a step is caught and the run goes on to its assertion
ActionFailed_ThenAssert(o, kind) ==
    /\ failedAt' = IF failedAt = "none" THEN pc ELSE failedAt
    /\ failedKind' = IF failedKind = "none" THEN kind ELSE failedKind
    /\ pc' = "assert"
    /\ UNCHANGED <<ip, exc, msg>>

\* an exception raised by a script step is not handled: it leaves the try block
ActionFailed(o, kind) ==
    /\ RaiseInTry(o, MessageOf(o), kind)
    /\ UNCHANGED ip

(***************************************************************************)
(* What a fill or click finds in the page.  The scripts address the same   *)
(* control by several XPaths in their successive login blocks; each        *)
(* statement carries exactly one of them.  An html/body/div[1]/... path    *)
(* selects a subset of what the html/body/div/... path with the same tail  *)
(* selects.                                                                *)
(***************************************************************************)
Candidates(x) ==
    CASE x \in {EmailA, EmailB} -> {EmailA, EmailB}
      [] x \in {PassA, PassB} -> {PassA, PassB}
      [] x \in {SubmitA, SubmitB, EntrarB} -> {SubmitA, SubmitB, EntrarB}
      [] OTHER -> {x}

Generalises(x) ==
    CASE x = EmailB -> {EmailA}
      [] x = PassB -> {PassA}
      [] x = SubmitB -> {SubmitA}
      [] OTHER -> {}

\* the sets of locators of a control that can match the page together
DomMatches(x) ==
    {m \in SUBSET Candidates(x) : \A b \in m : Generalises(b) \subseteq m}

\* variant: a resolver that falls back on any other locator of the same control
Resolves_AnyCandidate(x, m) == m # {}

\* elem = frame.locator(x).nth(0): the action waits for x itself to match
Resolves(x, m) == x \in m

\* a fill or click on a locator that matches nothing times out
ResolveOutcomes(kind, x, m) ==
    IF Resolves(x, m) THEN Outcomes(kind) ELSE {"TimeoutError"}

\* variant: the locator built by an earlier block is kept and used again
StepLocate_Cached ==
    /\ pc = "script"
    /\ Cur.kind = "locate"
    /\ IF elem = "None"
       THEN frame' = "pages[-1]" /\ elem' = Cur.arg
       ELSE UNCHANGED <<frame, elem>>
    /\ Advance
    /\ ran' = ran \cup {ip}
    /\ rerun' = (rerun \/ ip \in ran)
    /\ UNCHANGED <<env, pw, browser, context, page, session, failure, exitCode,
                   loop, hung, count, matched, elemUses>>

\* frame = context.pages[-1]; elem = frame.locator('xpath=...').nth(0)
StepLocate ==
    /\ pc = "script"
    /\ Cur.kind = "locate"
    /\ frame' = "pages[-1]"
    /\ elem' = Cur.arg
    /\ Advance
    /\ Ran
    /\ UNCHANGED <<env, pw, browser, context, page, session, failure, exitCode,
                   loop, hung, count>>

\* variant: the navigation is made in a tab opened for it with context.new_page()
StepGoto_NewTab ==
    /\ pc = "script"
    /\ Cur.kind = "goto"
    /\ \E o \in Outcomes("goto") :
        /\ count' = [count EXCEPT !["goto"] = @ + 1, !["new_page"] = @ + 1]
        /\ IF o = "ok"
           THEN Advance /\ UNCHANGED failure
           ELSE ActionFailed(o, "goto")
    /\ Ran
    /\ UNCHANGED <<env, locals, session, exitCode, loop, hung>>

\* await page.goto(url, wait_until="commit", timeout=10000)
StepGoto ==
    /\ pc = "script"
    /\ Cur.kind = "goto"
    /\ \E o \in Outcomes("goto") :
        /\ count' = Bump("goto")
        /\ IF o = "ok"
           THEN Advance /\ UNCHANGED failure
           ELSE ActionFailed(o, "goto")
    /\ Ran
    /\ UNCHANGED <<env, locals, session, exitCode, loop, hung>>

\* await page.wait_for_timeout(3000)
StepPause ==
    /\ pc = "script"
    /\ Cur.kind = "pause"
    /\ \E o \in Outcomes("pause") :
        /\ count' = Bump("pause")
        /\ IF o = "ok"
           THEN Advance /\ UNCHANGED failure
           ELSE ActionFailed(o, "pause")
    /\ Ran
    /\ UNCHANGED <<env, locals, session, exitCode, loop, hung>>

\* await elem.fill(text)
StepFill ==
    /\ pc = "script"
    /\ Cur.kind = "fill"
    /\ \E m \in DomMatches(elem) : \E o \in ResolveOutcomes("fill", elem, m) :
        /\ RanResolved(m)
        /\ IF o = "ok"
           THEN /\ count' = [count EXCEPT
                       !["fill"] = @ + 1,
                       !["login_fill"] =
                           @ + (IF IsLoginField(elem) /\ count["submit"] > 0 THEN 1 ELSE 0)]
                /\ Advance
                /\ UNCHANGED failure
           ELSE /\ count' = Bump("fill")
                /\ ActionFailed(o, "fill")
    /\ UNCHANGED <<env, locals, session, exitCode, loop, hung>>

\* await elem.click(timeout=5000)
StepClick ==
    /\ pc = "script"
    /\ Cur.kind = "click"
    /\ \E m \in DomMatches(elem) : \E o \in ResolveOutcomes("click", elem, m) :
        /\ RanResolved(m)
        /\ IF o = "ok"
           THEN /\ count' = [count EXCEPT
                       !["click"] = @ + 1,
                       !["submit"] = @ + (IF IsLoginSubmit(elem) THEN 1 ELSE 0)]
                /\ Advance
                /\ UNCHANGED failure
           ELSE /\ count' = Bump("click")
                /\ ActionFailed(o, "click")
    /\ UNCHANGED <<env, locals, session, exitCode, loop, hung>>

(***************************************************************************)
(* The terminal assertion                                                  *)
(***************************************************************************)
\* TC001 89-93, TC003 335-340, TC008 109-113:
\*   frame = context.pages[-1]
\*   try: await expect(frame.locator('text=...').first).to_be_visible(timeout=3000)
\*   except AssertionError: raise AssertionError("Test case failed: ...")
\* The name expect is looked up when the line runs; a NameError is no AssertionError.
AssertExpect ==
    /\ pc = "assert"
    /\ UsesExpect(scenario)
    /\ frame' = "pages[-1]"
    /\ count' = Bump("assert")
    /\ IF ~ExpectDefined(scenario)
       THEN RaiseInTry("NameError", "python", "expect")
       ELSE IF VisibleWithin(ExpectTimeout)
            THEN pc' = "sleep" /\ UNCHANGED failure
            ELSE RaiseInTry("AssertionError", "authored", "expect")
    /\ UNCHANGED <<env, ip, pw, browser, context, page, elem, session, exitCode,
                   loop, hung, scriptHist>>

\* variant: a wait whose timeout is swallowed, the run going on to its end
AssertWaitFor_Lenient ==
    /\ pc = "assert"
    /\ ~UsesExpect(scenario)
    /\ frame' = "pages[-1]"
    /\ elem' = "text=Evidencias"
    /\ count' = Bump("assert")
    /\ \E o \in {"wait", "Error"} :
        IF o = "Error"
        THEN RaiseInTry("Error", "playwright", "wait_for")
        ELSE IF VisibleWithin(WaitForTimeout)
             THEN pc' = "assert_is_visible" /\ UNCHANGED failure
             ELSE pc' = "sleep" /\ UNCHANGED failure
    /\ UNCHANGED <<env, ip, pw, browser, context, page, session, exitCode, loop,
                   hung, scriptHist>>

\* TC007 112-116:
\*   frame = context.pages[-1]; elem = frame.locator("text=Evidências").nth(0)
\*   await elem.wait_for(state="visible", timeout=5000)
AssertWaitFor ==
    /\ pc = "assert"
    /\ ~UsesExpect(scenario)
    /\ frame' = "pages[-1]"
    /\ elem' = "text=Evidencias"
    /\ count' = Bump("assert")
    /\ \E o \in {"wait", "Error"} :
        IF o = "Error"
        THEN RaiseInTry("Error", "playwright", "wait_for")
        ELSE IF VisibleWithin(WaitForTimeout)
             THEN pc' = "assert_is_visible" /\ UNCHANGED failure
             ELSE RaiseInTry("TimeoutError", "playwright", "wait_for")
    /\ UNCHANGED <<env, ip, pw, browser, context, page, session, exitCode, loop,
                   hung, scriptHist>>

\* variant: an assertion that is evaluated again when the element is not visible
AssertIsVisible_Retry ==
    /\ pc = "assert_is_visible"
    /\ \E o \in {"visible", "hidden", "Error"} :
        CASE o = "visible" -> pc' = "sleep" /\ UNCHANGED failure
          [] o = "hidden" -> pc' = "assert" /\ UNCHANGED failure
          [] o = "Error" -> RaiseInTry("Error", "playwright", "is_visible")
    /\ UNCHANGED <<env, ip, locals, session, exitCode, loop, hung, count, scriptHist>>

\* TC007 117: assert await elem.is_visible(), 'Expected "Evidências" to be visible'
\* is_visible() looks at the page again: the element may have been hidden meanwhile
AssertIsVisible ==
    /\ pc = "assert_is_visible"
    /\ \E o \in {"visible", "hidden", "Error"} :
        CASE o = "visible" -> pc' = "sleep" /\ UNCHANGED failure
          [] o = "hidden" -> RaiseInTry("AssertionError", "authored", "is_visible")
          [] o = "Error" -> RaiseInTry("Error", "playwright", "is_visible")
    /\ UNCHANGED <<env, ip, locals, session, exitCode, loop, hung, count, scriptHist>>

\* await asyncio.sleep(5), the last statement of the try block
Sleep ==
    /\ pc = "sleep"
    /\ pc' = "fin_context"
    /\ UNCHANGED <<env, ip, locals, session, failure, exitCode, loop, hung, count,
                   scriptHist>>

(***************************************************************************)
(* The finally block: three guarded releases, one after the other, with no *)
(* handler around any of them.                                             *)
(***************************************************************************)
\* variant: the context is closed only when a page was opened in it
ContextGuard_Page == page # "None"

\* if context:
ContextGuard == context # "None"

\* if browser:
BrowserGuard == browser # "None"

\* variant: the driver is stopped only when a browser was launched
PwGuard_Browser == browser # "None"

\* if pw:
PwGuard == pw # "None"

\* if <held>: await <r>.close(); an exception raised by the release leaves
\* run_test at once and replaces the exception in flight
ReleaseStep(r, kind, held, nextPc) ==
    IF ~held
    THEN /\ pc' = nextPc
         /\ UNCHANGED <<env, ip, locals, session, failure, exitCode, loop, hung,
                        count, scriptHist>>
    ELSE \E o \in Outcomes(kind) :
        IF o = "hang" THEN Hang
        ELSE /\ releaseCalls' = [releaseCalls EXCEPT ![r] = @ + 1]
             /\ IF o = "ok"
                THEN /\ alloc' = [alloc EXCEPT ![r] = "released"]
                     /\ pc' = nextPc
                     /\ UNCHANGED <<closeRaised, exc, msg>>
                ELSE /\ alloc' = [alloc EXCEPT ![r] = "release_failed"]
                     /\ closeRaised' = closeRaised \cup {r}
                     /\ exc' = o
                     /\ msg' = MessageOf(o)
                     /\ pc' = "asyncio_run"
             /\ UNCHANGED <<env, ip, locals, failedAt, failedKind, ctxTimeout,
                            exitCode, loop, hung, count, scriptHist>>

FinallyContext ==
    /\ pc = "fin_context"
    /\ ~hung
    /\ ReleaseStep("context", "context_close", ContextGuard, "fin_browser")

FinallyBrowser ==
    /\ pc = "fin_browser"
    /\ ~hung
    /\ ReleaseStep("browser", "browser_close", BrowserGuard, "fin_pw")

FinallyPw ==
    /\ pc = "fin_pw"
    /\ ~hung
    /\ ReleaseStep("pw", "stop", PwGuard, "asyncio_run")

(***************************************************************************)
(* asyncio.run(run_test()): the interpreter exits 0 when run_test returned *)
(* and 1 when an exception (or the SyntaxError of the file) reached it.    *)
(***************************************************************************)
\* variant: a host that maps non-assertion exceptions to exit code 2
ExitCodeOf_ThreeWay(e) ==
    IF e = "none" THEN 0 ELSE IF e = "AssertionError" THEN 1 ELSE 2

ExitCodeOf(e) == IF e = "none" THEN 0 ELSE 1

AsyncioRun ==
    /\ pc = "asyncio_run"
    /\ exitCode' = <<ExitCodeOf(exc)>>
    /\ pc' = "done"
    /\ UNCHANGED <<env, ip, locals, session, failure, loop, hung, count, scriptHist>>

Next ==
    \/ Compile
    \/ Start
    \/ Launch
    \/ NewContext
    \/ SetDefaultTimeout
    \/ NewPage
    \/ Goto0
    \/ WaitMain
    \/ WaitFrame
    \/ StepLocate
    \/ StepGoto
    \/ StepPause
    \/ StepFill
    \/ StepClick
    \/ AssertExpect
    \/ AssertWaitFor
    \/ AssertIsVisible
    \/ Sleep
    \/ FinallyContext
    \/ FinallyBrowser
    \/ FinallyPw
    \/ AsyncioRun

Spec == Init /\ [][Next]_vars

(***************************************************************************)
(* The same program observed against a wall clock.  run_test reads no      *)
(* clock and sets no timer around the try block: time passes while it is   *)
(* suspended in the awaits of lines 9-94 and nothing in the program reacts.*)
(***************************************************************************)
TryPcs ==
    {"start", "launch", "new_context", "set_default_timeout", "new_page", "goto0",
     "wait_main", "wait_frames", "script", "assert", "assert_is_visible", "sleep"}

Tick ==
    /\ pc \in TryPcs
    /\ ~hung
    /\ ~pastDeadline
    /\ pastDeadline' = TRUE
    /\ UNCHANGED <<scenario, targetAt, conc, pc, ip, locals, session, failure,
                   exitCode, loop, hung, count, scriptHist>>

NextClock == Next \/ Tick

SpecClock == Init /\ [][NextClock]_vars

(***************************************************************************)
(* Two runs side by side (two interpreter processes, or two run_test       *)
(* coroutines on one loop).  Every name run_test uses is a local of the    *)
(* call; start(), launch(), new_context() and new_page() each hand back    *)
(* an object made by that call.  Closing an object closes what was made    *)
(* from it.                                                                *)
(***************************************************************************)
single ==
    <<scenario, targetAt, pastDeadline, pc, ip, locals, session, failure, exitCode,
      loop, hung, count, scriptHist>>

NewObject(kind, r, parent) ==
    [kind |-> kind, by |-> r, parent |-> parent, closedBy |-> "none", usedBy |-> {}]

RECURSIVE IsUnder(_, _)
IsUnder(i, h) ==
    \/ i = h
    \/ heap[i].parent # NoHandle /\ IsUnder(heap[i].parent, h)

\* variant: one browser process kept at module level and handed to every run
LaunchedBrowser_Singleton(r) ==
    IF \E i \in DOMAIN heap : heap[i].kind = "browser" /\ heap[i].closedBy = "none"
    THEN CHOOSE i \in DOMAIN heap : heap[i].kind = "browser" /\ heap[i].closedBy = "none"
    ELSE Len(heap) + 1

\* pw.chromium.launch(...) starts a chromium process of its own
LaunchedBrowser(r) == Len(heap) + 1

\* an acquisition that raises goes to the finally block
RunAcquire(r, at, field, kind, h, parent, nextPc) ==
    /\ runs[r].pc = at
    /\ \E o \in {"ok", "Error"} :
        IF o = "ok"
        THEN /\ runs' = [runs EXCEPT ![r] = [@ EXCEPT ![field] = h, !.pc = nextPc]]
             /\ heap' = IF h = Len(heap) + 1
                        THEN Append(heap, NewObject(kind, r, parent))
                        ELSE heap
        ELSE /\ runs' = [runs EXCEPT ![r].pc = "fin_context"]
             /\ UNCHANGED heap
    /\ UNCHANGED single

RunStart(r) ==
    RunAcquire(r, "start", "pw", "pw", Len(heap) + 1, NoHandle, "launch")

RunLaunch(r) ==
    RunAcquire(r, "launch", "browser", "browser", LaunchedBrowser(r), runs[r].pw,
               "new_context")

RunNewContext(r) ==
    RunAcquire(r, "new_context", "context", "context", Len(heap) + 1,
               runs[r].browser, "new_page")

RunNewPage(r) ==
    RunAcquire(r, "new_page", "page", "page", Len(heap) + 1, runs[r].context,
               "script")

\* lines 31-94: every statement acts on page or on context.pages[-1]
RunScript(r) ==
    /\ runs[r].pc = "script"
    /\ heap' = [heap EXCEPT ![runs[r].page].usedBy = @ \cup {r}]
    /\ runs' = [runs EXCEPT ![r].pc = "fin_context"]
    /\ UNCHANGED single

\* if <local>: await <local>.close(); a raise leaves run_test
RunRelease(r, at, field, nextPc) ==
    /\ runs[r].pc = at
    /\ IF runs[r][field] = NoHandle
       THEN /\ runs' = [runs EXCEPT ![r].pc = nextPc]
            /\ UNCHANGED heap
       ELSE \E o \in {"ok", "Error"} :
            IF o = "ok"
            THEN /\ heap' = [i \in DOMAIN heap |->
                                IF IsUnder(i, runs[r][field]) /\ heap[i].closedBy = "none"
                                THEN [heap[i] EXCEPT !.closedBy = r]
                                ELSE heap[i]]
                 /\ runs' = [runs EXCEPT ![r].pc = nextPc]
            ELSE /\ runs' = [runs EXCEPT ![r].pc = "done"]
                 /\ UNCHANGED heap
    /\ UNCHANGED single

RunFinallyContext(r) == RunRelease(r, "fin_context", "context", "fin_browser")

RunFinallyBrowser(r) == RunRelease(r, "fin_browser", "browser", "fin_pw")

RunFinallyPw(r) == RunRelease(r, "fin_pw", "pw", "done")

NextConc ==
    \E r \in ConcRuns :
        \/ RunStart(r)
        \/ RunLaunch(r)
        \/ RunNewContext(r)
        \/ RunNewPage(r)
        \/ RunScript(r)
        \/ RunFinallyContext(r)
        \/ RunFinallyBrowser(r)
        \/ RunFinallyPw(r)

InitConc == Init /\ scenario = "TC001" /\ targetAt = NeverT

SpecConc == InitConc /\ [][NextConc]_vars

(***************************************************************************)
(* The outcome of a run, in the words of the specification: Passed when    *)
(* run_test returned, Failed when an AssertionError left it, Errored when  *)
(* any other exception did.                                                *)
(***************************************************************************)
Done == pc = "done"

Status ==
    IF exc = "none" THEN "Passed"
    ELSE IF exc = "AssertionError" THEN "Failed" ELSE "Errored"

Held == {r \in Resources : alloc[r] # "unallocated"}

TeardownPcs == {"fin_context", "fin_browser", "fin_pw", "asyncio_run", "done"}

\* the resources the finally block releases after r
ReleasedAfter(r) ==
    CASE r = "context" -> {"browser", "pw"}
      [] r = "browser" -> {"pw"}
      [] r = "pw" -> {}

\* the awaited call run_test is suspended in, "none" at a synchronous statement
AwaitedKind ==
    CASE pc \in {"start", "launch", "new_context", "new_page", "sleep"} -> pc
      [] pc = "goto0" -> "goto"
      [] pc \in {"wait_main", "wait_frames"} -> "wait_load"
      [] pc = "script" -> IF Cur.kind = "locate" THEN "none" ELSE Cur.kind
      [] pc = "assert" -> IF UsesExpect(scenario) THEN "expect" ELSE "wait_for"
      [] pc = "assert_is_visible" -> "is_visible"
      [] pc = "fin_context" -> IF ContextGuard THEN "context_close" ELSE "none"
      [] pc = "fin_browser" -> IF BrowserGuard THEN "browser_close" ELSE "none"
      [] pc = "fin_pw" -> IF PwGuard THEN "stop" ELSE "none"
      [] OTHER -> "none"

(***************************************************************************)
(* C1.  On every exit path of run_test every acquired resource (driver,    *)
(* browser, context) has had its release invoked exactly once when the run *)
(* ends, and none is left open.  The code does not keep this: see C2.      *)
(***************************************************************************)
C1_AcquiredReleasedExactlyOnce ==
    Done => \A r \in Held : releaseCalls[r] = 1 /\ alloc[r] # "open"

(***************************************************************************)
(* C2.  When the release of an earlier resource raises during teardown,    *)
(* the releases of the resources after it are still performed.             *)
(***************************************************************************)
C2_FailedReleaseKeepsLaterReleases ==
    Done => \A r \in closeRaised :
                \A q \in ReleasedAfter(r) \cap Held : releaseCalls[q] = 1

(***************************************************************************)
(* C3.  If the driver or the browser fails to launch, the run ends         *)
(* Errored, each launch step was attempted once, no navigation, pause,     *)
(* fill, click or assertion was executed, and at the end of the run no     *)
(* resource is left open.                                                  *)
(***************************************************************************)
LaunchFailed == failedAt \in {"start", "launch"}

C3_LaunchFailureErrorsAndReleases ==
    LaunchFailed =>
        /\ count["start"] = 1
        /\ count["launch"] = (IF failedAt = "launch" THEN 1 ELSE 0)
        /\ \A k \in {"new_context", "new_page", "goto", "pause", "fill", "click",
                     "assert"} : count[k] = 0
        /\ ran = {}
        /\ pc \in TeardownPcs
        /\ Status = "Errored"
        /\ Done => \A r \in Resources : alloc[r] # "open"

C3_Witness ==
    /\ Done
    /\ failedAt = "launch"
    /\ alloc["pw"] = "released"
    /\ exitCode = <<1>>

(***************************************************************************)
(* C4.  If every action before the assertion completed and the target of   *)
(* the assertion becomes visible no later than the assertion timeout, the  *)
(* run is Passed.  Stated for the runs whose teardown raised nothing, so    *)
(* that the outcome is the one the try block produced.                     *)
(***************************************************************************)
C4_VisibleInTimeIsPassed ==
    (/\ Done
     /\ count["assert"] > 0
     /\ VisibleWithin(AssertTimeout(scenario))
     /\ closeRaised = {})
        => Status = "Passed"

(***************************************************************************)
(* C5.  If every action before the assertion completed and the target     *)
(* never becomes visible within the assertion timeout, the run is Failed   *)
(* (not Errored) and the failure carries the authored message.  Stated for *)
(* the runs whose teardown raised nothing.                                 *)
(***************************************************************************)
C5_NotVisibleIsFailedWithAuthoredMessage ==
    (/\ Done
     /\ count["assert"] > 0
     /\ ~VisibleWithin(AssertTimeout(scenario))
     /\ closeRaised = {})
        => (Status = "Failed" /\ msg = "authored")

(***************************************************************************)
(* C6.  As claimed: the exit code is 0 exactly when the run Passed, 1      *)
(* exactly when it Failed, 2 exactly when it Errored.                      *)
(***************************************************************************)
C6_ExitCodeDistinguishesThreeOutcomes ==
    Done =>
        /\ (exitCode = <<0>>) <=> (Status = "Passed")
        /\ (exitCode = <<1>>) <=> (Status = "Failed")
        /\ (exitCode = <<2>>) <=> (Status = "Errored")

(***************************************************************************)
(* C6, amended.  The exit code is 0 exactly when the run Passed and 1      *)
(* exactly when it Failed or Errored; no run exits with 2, so the exit     *)
(* code does not tell an Errored run from a Failed one.                    *)
(***************************************************************************)
C6_ExitCodeZeroIffPassed ==
    /\ ~Done => exitCode = <<>>
    /\ Done =>
        /\ (exitCode = <<0>>) <=> (Status = "Passed")
        /\ (exitCode = <<1>>) <=> (Status \in {"Failed", "Errored"})
        /\ exitCode # <<2>>

C6_Witness ==
    /\ Done
    /\ failedKind = "click"
    /\ Status = "Errored"
    /\ exitCode = <<1>>

(***************************************************************************)
(* C7.  Every run terminates and every step at which it suspends is        *)
(* bounded by an explicit timeout: the run is never stuck short of its     *)
(* end, and the call it is suspended in always carries a timeout.          *)
(***************************************************************************)
C7_TerminatesEverySuspensionBounded ==
    /\ Done \/ ENABLED Next
    /\ AwaitedKind # "none" => ExplicitTimeout(AwaitedKind) # NoTimeout

(***************************************************************************)
(* C8.  As claimed: once a login submit click has completed, no later step *)
(* fills the login form and clicks the login submit control again.         *)
(***************************************************************************)
C8_LoginSubmittedAtMostOnce ==
    ~(count["login_fill"] >= 1 /\ count["submit"] >= 2)

(***************************************************************************)
(* C8, amended.  The script is straight-line: every step is executed at    *)
(* most once and in script order, with no resumption point, so the login   *)
(* blocks that follow a completed submit click are executed as well; the   *)
(* number of completed login submit clicks never exceeds the number of     *)
(* submit clicks the script lists.                                         *)
(***************************************************************************)
C8_StepsOnceInOrder ==
    /\ ~rerun
    /\ \A i \in ran : i <= ip /\ \A j \in 1..i : j \in ran
    /\ ip <= Len(Script(scenario)) + 1
    /\ count["submit"] <= NumSubmitClicks(scenario)

C8_Witness ==
    /\ Done
    /\ scenario = "TC007"
    /\ count["submit"] = 3
    /\ count["login_fill"] = 4

(***************************************************************************)
(* C9.  As claimed: a fill or click that fails mid-sequence does not abort *)
(* the run at once; the remaining actions are retried first.               *)
(***************************************************************************)
C9_FailedActionIsRetried ==
    failedKind \in {"fill", "click"} => rerun

(***************************************************************************)
(* C9, amended.  A fill or click that fails mid-sequence aborts the run at *)
(* once: no recovery is applied, no step is retried, no later action and   *)
(* no assertion is executed, teardown starts immediately and the run ends  *)
(* Errored.                                                                *)
(***************************************************************************)
C9_FailedActionAbortsAtOnce ==
    failedKind \in {"fill", "click"} =>
        /\ pc \in TeardownPcs
        /\ ~rerun
        /\ ip \in ran /\ \A i \in ran : i <= ip
        /\ Script(scenario)[ip].kind = failedKind
        /\ count["assert"] = 0
        /\ Status = "Errored"

C9_Witness ==
    /\ Done
    /\ failedKind = "fill"
    /\ exc = "TimeoutError"
    /\ count["fill"] = 2

(***************************************************************************)
(* C10.  An error of a wait-for-load-state step, on the main page or on a  *)
(* frame, is swallowed: the step raises nothing, does not start teardown,  *)
(* and the run goes on with the next wait or the first action, in order.   *)
(***************************************************************************)
C10_LoadStateErrorSwallowed ==
    [][(pc \in {"wait_main", "wait_frames"}) =>
         (/\ exc' = "none"
          /\ failedAt' = "none"
          /\ pc' = (IF pc = "wait_frames" /\ fi = frames
                    THEN "script" ELSE "wait_frames")
          /\ fi' = fi + 1
          /\ ip' = 1
          /\ ran' = {})]_vars

C10_Witness ==
    /\ pc = "script"
    /\ count["swallowed"] >= 2
    /\ exc = "none"
    /\ fi = frames + 1

(***************************************************************************)
(* C11.  Teardown releases in a fixed order: the context is closed before  *)
(* the browser and the browser before the driver is stopped; the browser   *)
(* is never closed, and the driver never stopped, while a context or       *)
(* browser the run acquired is still open, and no release is repeated.     *)
(***************************************************************************)
Closed(r) == alloc[r] \in {"unallocated", "released"}

C11_ContextThenBrowserThenDriver ==
    /\ releaseCalls["browser"] >= 1 => Closed("context")
    /\ releaseCalls["pw"] >= 1 => (Closed("context") /\ Closed("browser"))
    /\ \A r \in Resources : releaseCalls[r] <= 1
    /\ pc = "fin_context" => releaseCalls = [r \in Resources |-> 0]

C11_Witness ==
    /\ pc = "fin_pw"
    /\ alloc = [r \in Resources |->
                    IF r = "pw" THEN "open" ELSE "released"]
    /\ releaseCalls["context"] = 1
    /\ releaseCalls["browser"] = 1

(***************************************************************************)
(* C12.  When the outcome of the run becomes observable outside run_test   *)
(* (the return or the exception reaches asyncio.run), the teardown of the  *)
(* session has been performed: the release of every acquired resource has  *)
(* been invoked.  The code does not keep this when a release raises: C2.   *)
(***************************************************************************)
C12_TeardownPerformedBeforeOutcome ==
    pc \in {"asyncio_run", "done"} => \A r \in Held : releaseCalls[r] >= 1

(***************************************************************************)
(* C13 as stated.  A deadline bounds the run: a run during whose try block *)
(* the deadline passed has gone to teardown and ended Errored.             *)
(***************************************************************************)
C13_DeadlineEndsRunErrored ==
    (Done /\ pastDeadline) => Status = "Errored"

(***************************************************************************)
(* C13 as the code has it.  There is no scenario-level deadline: whatever  *)
(* time has passed, the try block is left only by a statement that raised  *)
(* or after its last statement, with every step of the script and the      *)
(* assertion executed; a run in which nothing raised is Passed.            *)
(***************************************************************************)
C13_OnlyARaiseCutsTheRunShort ==
    /\ (pc \in TeardownPcs /\ ~HasSyntaxError(scenario) /\ failedAt = "none")
        => /\ ip = Len(Script(scenario)) + 1
           /\ ran = 1..Len(Script(scenario))
           /\ count["assert"] = 1
    /\ (Done /\ ~HasSyntaxError(scenario) /\ failedAt = "none" /\ closeRaised = {})
        => Status = "Passed"

C13_Witness ==
    /\ Done
    /\ pastDeadline
    /\ failedAt = "none"
    /\ ran = 1..Len(Script(scenario))
    /\ Status = "Passed"

(***************************************************************************)
(* C14.  Two runs executing concurrently share no session resource, under  *)
(* every interleaving of their steps: each driver, browser, context and    *)
(* page a run names was made by that run and is named by no other run, is  *)
(* acted on only by that run, and is closed only by that run's teardown.   *)
(***************************************************************************)
LocalsOf(r) ==
    {runs[r].pw, runs[r].browser, runs[r].context, runs[r].page} \ {NoHandle}

C14_RunsShareNoSessionResource ==
    /\ \A r \in ConcRuns : \A h \in LocalsOf(r) : heap[h].by = r
    /\ \A r1, r2 \in ConcRuns : r1 # r2 => LocalsOf(r1) \cap LocalsOf(r2) = {}
    /\ \A i \in DOMAIN heap :
        /\ heap[i].usedBy \subseteq {heap[i].by}
        /\ heap[i].closedBy \in {"none", heap[i].by}
        /\ heap[i].parent # NoHandle => heap[heap[i].parent].by = heap[i].by

C14_Witness ==
    /\ \A r \in ConcRuns : runs[r].pc = "done"
    /\ Len(heap) = 8
    /\ \A i \in DOMAIN heap : heap[i].closedBy = heap[i].by
    /\ \A i \in 1..7 : heap[i].by # heap[i + 1].by

(***************************************************************************)
(* C15.  A run goes through Initializing, Running, Asserting and then      *)
(* teardown, in that order: no navigation, pause, fill or click is issued  *)
(* before driver, browser, context (with its default timeout set) and page *)
(* are acquired; the steps of the script are executed in script order; the *)
(* assertion is evaluated only after every step has been executed.         *)
(***************************************************************************)
Phase ==
    CASE pc \in {"compile", "start", "launch", "new_context", "set_default_timeout",
                 "new_page"} -> "Initializing"
      [] pc \in {"goto0", "wait_main", "wait_frames", "script"} -> "Running"
      [] pc \in {"assert", "assert_is_visible", "sleep"} -> "Asserting"
      [] pc \in TeardownPcs ->
            IF failedKind \in {"none", "expect", "wait_for", "is_visible"}
               /\ ~HasSyntaxError(scenario)
            THEN "Completed" ELSE "Aborted"

ActionsIssued ==
    count["goto"] + count["pause"] + count["fill"] + count["click"]

SessionAcquired ==
    /\ pw = "Obj" /\ browser = "Obj" /\ context = "Obj" /\ page = "Obj"
    /\ ctxTimeout = DefaultTimeout

C15_PhaseOrder ==
    /\ Phase = "Initializing" => (ActionsIssued = 0 /\ ran = {} /\ count["assert"] = 0)
    /\ (ActionsIssued > 0 \/ ran # {}) => SessionAcquired
    /\ Phase = "Running" => (SessionAcquired /\ count["assert"] = 0)
    /\ \A i \in ran : 1..i \subseteq ran
    /\ pc = "script" => ran = 1..(ip - 1)
    /\ Phase = "Asserting" => (failedAt = "none" /\ ran = 1..Len(Script(scenario)))
    /\ count["assert"] > 0 => ran = 1..Len(Script(scenario))
    /\ Phase = "Completed" => count["assert"] = 1

C15_Witness ==
    /\ pc = "sleep"
    /\ SessionAcquired
    /\ ran = 1..Len(Script(scenario))
    /\ count["assert"] = 1

(***************************************************************************)
(* C16.  In a run in which every action of the script completed, the       *)
(* terminal assertion is evaluated exactly once; nothing of the script     *)
(* runs after it (only the fixed sleep that closes the assertion block     *)
(* when it passed, then teardown); an assertion that failed is not         *)
(* evaluated again: the run is in teardown.                                *)
(***************************************************************************)
ScriptKinds == {"goto", "pause", "fill", "click"}

AssertKinds == {"expect", "wait_for", "is_visible"}

AllActionsCompleted ==
    /\ ~HasSyntaxError(scenario)
    /\ ran = 1..Len(Script(scenario))
    /\ failedKind \notin ScriptKinds
    /\ pc # "script"

C17_FailsOnlyWhenNoCandidateMatches ==
    failedKind \in {"fill", "click"} => matched \in {"own", "none"}

(***************************************************************************)
(* C17 as the code has it.  A fill or click uses the one locator written   *)
(* in its statement: it completes only when that locator matches, and      *)
(* when it does not the step raises and the run goes to teardown, whether  *)
(* or not another locator of the same control matches.                     *)
(***************************************************************************)
C17_OnlyTheStatementsLocatorIsUsed ==
    /\ matched \in {"alt", "none"} =>
        /\ failedKind \in {"fill", "click"}
        /\ pc \in TeardownPcs
        /\ ip \notin 1..Len(Script(scenario)) \/ Script(scenario)[ip].kind = failedKind
    /\ (count["fill"] + count["click"] > 0 /\ failedKind \notin {"fill", "click"})
        => matched = "own"

C17_Witness ==
    /\ Done
    /\ matched = "alt"
    /\ failedKind = "fill"
    /\ elem = EmailB
    /\ exc = "TimeoutError"

(***************************************************************************)
(* C18.  Whatever the outcomes of the steps, a run issues no more          *)
(* re-navigations and no more login blocks than its script lists: the      *)
(* navigations after the first never exceed the script's goto statements,  *)
(* the login submit clicks never exceed the script's submit clicks, and    *)
(* the fills of the login form after a first submit never exceed the       *)
(* script's fills.                                                         *)
(***************************************************************************)
NumFills(s) ==
    Cardinality({i \in 1..Len(Script(s)) : Script(s)[i].kind = "fill"})

C18_RecoveryWithinScriptBudget ==
    /\ count["goto"] <= 1 + NumGotos(scenario)
    /\ count["submit"] <= NumSubmitClicks(scenario)
    /\ count["login_fill"] <= NumFills(scenario)
    /\ count["goto"] + count["pause"] + count["fill"] + count["click"]
           + Cardinality({i \in ran : Script(scenario)[i].kind = "locate"})
        <= 1 + Len(Script(scenario))

C18_Witness ==
    /\ Done
    /\ scenario = "TC008"
    /\ count["goto"] = 1 + NumGotos(scenario)
    /\ count["submit"] = NumSubmitClicks(scenario)
    /\ count["submit"] > 1
    /\ count["login_fill"] > 0

(***************************************************************************)
(* C19.  Every fill and click acts on a locator built just before it       *)
(* against context.pages[-1], and so does the assertion: a locator is      *)
(* used for one action only, the locator a fill or click uses is the one   *)
(* of its own block, and frame is never the leftover of the frames loop    *)
(* when an action or the assertion uses it.                                *)
(***************************************************************************)
AboutToAct == pc = "script" /\ Cur.kind \in {"fill", "click"}

C19_TargetResolvedAfreshEachStep ==
    /\ elemUses <= 1
    /\ AboutToAct =>
        /\ frame = "pages[-1]"
        /\ elemUses = 0
        /\ Script(scenario)[ip - 2].kind = "locate"
        /\ elem = Script(scenario)[ip - 2].arg
        /\ {ip - 2, ip - 1} \subseteq ran
    /\ count["fill"] + count["click"] + count["assert"] > 0 => frame = "pages[-1]"
    /\ pc = "assert_is_visible" => elem = "text=Evidencias"

C19_Witness ==
    /\ AboutToAct
    /\ elemUses = 0
    /\ count["fill"] + count["click"] >= 3
    /\ elem = EntrarB

C22_RaisingActionGoesStraightToTeardown ==
    failedKind \in ScriptKinds =>
        /\ pc \in TeardownPcs
        /\ failedAt \in {"goto0", "script"}
        /\ failedAt = "goto0" => (ran = {} /\ ActionsIssued = 1)
        /\ failedAt = "script" =>
            /\ ran = 1..ip
            /\ Script(scenario)[ip].kind = failedKind
            /\ ActionsIssued =
                1 + Cardinality({i \in ran : Script(scenario)[i].kind # "locate"})
        /\ count["assert"] = 0
        /\ exc \notin {"none", "AssertionError"}
        /\ closeRaised = {} => (exc \in CallErrors(failedKind) /\ msg = MessageOf(exc))
        /\ Done => (Status = "Errored" /\ exitCode = <<ExitCodeOf(exc)>>)

C22_Witness ==
    /\ Done
    /\ failedKind = "goto"
    /\ failedAt = "script"
    /\ exc = "TimeoutError"
    /\ closeRaised = {}
    /\ ip < Len(Script(scenario))
    /\ alloc = [r \in Resources |-> "released"]

(***************************************************************************)
(* C23.  When acquisition fails at driver start, browser launch or         *)
(* context creation, the finished teardown has invoked the release of      *)
(* exactly the resources acquired before that stage, once each, and of no  *)
(* resource that was never acquired.  The code does not keep the first     *)
(* half when a release raises: C2.                                         *)
(***************************************************************************)
C23_ReleasesExactlyWhatWasAcquired ==
    (pc \in {"asyncio_run", "done"} /\ failedAt \in {"start", "launch", "new_context"})
        => \A r \in Resources : releaseCalls[r] = (IF r \in Held THEN 1 ELSE 0)

(***************************************************************************)
(* C24.  A run ends Passed (run_test returns, exit code 0) only when its   *)
(* terminal assertion was evaluated, after every action had completed, and *)
(* found its target visible within the assertion's timeout: a run in which *)
(* the assertion was not reached, raised or timed out does not end Passed. *)
(***************************************************************************)
EndedPassed == Done /\ exitCode = <<ExitCodeOf("none")>>

C24_PassedOnlyWhenAssertionSawTarget ==
    /\ EndedPassed =>
        /\ Status = "Passed"
        /\ count["assert"] = 1
        /\ AllActionsCompleted
        /\ failedAt = "none"
        /\ VisibleWithin(AssertTimeout(scenario))
        /\ ~UsesExpect(scenario) \/ ExpectDefined(scenario)
        /\ closeRaised = {}
    /\ (Done /\ (count["assert"] = 0 \/ failedKind \in AssertKinds
                 \/ ~VisibleWithin(AssertTimeout(scenario))))
        => (Status # "Passed" /\ ~EndedPassed)

C24_Witness ==
    /\ EndedPassed
    /\ scenario = "TC007"
    /\ targetAt = WaitForTimeout
    /\ count["assert"] = 1
    /\ count["swallowed"] > 0

====
